---- MODULE Spec2Model ----
(***************************************************************************)
(* Place search functions of gmap-llm-js: the three Netlify handlers       *)
(*   "anchor" : find-places.js with GPS anchor    (src/unnamed/part_000)   *)
(*   "llm"    : find-places-llm.js                (src/netlify/functions)  *)
(*   "plain"  : find-places.js without anchor     (src/unnamed/part_001)   *)
(* One handler invocation is modelled from the arrival of the event to the *)
(* response.  A step of the model is the synchronous code between two      *)
(* suspension points (await of a request, of the 2 s timer, or of the      *)
(* promise returned by getAllPlaces).                                      *)
(*                                                                         *)
(* Encodings.  A string that the code inspects (the query) is a sequence   *)
(* of characters.  An optional value is a sequence of length 0 or 1.       *)
(* rating is in tenths (4.8 -> 48); a distance is in 1/100 km, the         *)
(* resolution formatPlaceInfo rounds to (10.3 km -> 1030).  A raw place    *)
(* carries, for its geometry, the haversine distance of its location from  *)
(* the configured anchor, or NoGeo when the upstream gave no geometry.     *)
(***************************************************************************)
EXTENDS Integers, Sequences, FiniteSets, TLC

\* ------------------------------------------------------------ bounds
\* longest list of records one upstream page carries in Spec and FetchSpec
MaxPageLen == 2
\* largest page number a request asks for
MaxPage == 3
\* largest maxResults (besides the default 60) getAllPlaces is called with
MaxDirectResults == 3
\* longest aggregated list RankSpec ranks
MaxRankLen == 3
\* number of places the upstream knows of in ConcSpec
MaxConcPlaces == 2

\* ------------------------------------------------------------ constants
maxRequests == 3
DefaultMaxResults == 60
MaxTopN == 60
DefaultTopN == 5
DefaultPage == 1
\* 0.5 km, in 1/100 km
Band == 50

NoRating == -1
NoGeo == -1
NoDist == -1
\* next_page_token absent from the response (undefined)
NoToken == "undefined"

Min(a, b) == IF a < b THEN a ELSE b

\* ------------------------------------------------------------ strings
SP == " "
Chars == {SP, "p"}

RECURSIVE TrimStart(_)
TrimStart(s) == IF s /= <<>> /\ Head(s) = SP THEN TrimStart(Tail(s)) ELSE s

RECURSIVE TrimEnd(_)
TrimEnd(s) ==
  IF s /= <<>> /\ s[Len(s)] = SP THEN TrimEnd(SubSeq(s, 1, Len(s) - 1)) ELSE s

\* String.prototype.trim
Trim(s) == TrimEnd(TrimStart(s))

\* JavaScript truthiness of a string or undefined (a token)
Truthy(tok) == tok /= NoToken /\ tok /= ""

\* slice(a - b): the last b - a elements instead of those from a to b
SliceLast(s, a, b) == SubSeq(s, Len(s) - Min(b - a, Len(s)) + 1, Len(s))

\* Array.prototype.slice(a, b) for 0 <= a
Slice(s, a, b) == SubSeq(s, a + 1, Min(b, Len(s)))

\* Math.floor(a / b) + 1 in place of Math.ceil(a / b)
FloorPlusOne(a, b) == (a \div b) + 1

\* Math.ceil(a / b) for a >= 0, b >= 1
CeilDiv(a, b) == (a + b - 1) \div b

SeqsUpTo(S, n) == UNION {[1..k -> S] : k \in 0..n}

\* ------------------------------------------------------------ state
VARIABLES
  variant,         \* which handler file runs: "anchor", "llm" or "plain"
  env,             \* process.env: "ok", "noMapsKey" or "noDeepseekKey"
  event,           \* the Netlify event: httpMethod and the parsed body
  pc,              \* the suspension point the invocation waits at
  topN,            \* top_n after the destructuring default
  page,            \* page after the destructuring default
  originalQuery,   \* llm handler: query.trim()
  processedQuery,  \* llm handler: what preprocessQueryWithLLM returned
  llmReply,        \* what the rewrite model answered (<<>> before it did)
  searchQuery,     \* searchPlaces' parameter query
  anchorCoords,    \* searchPlaces' anchorCoords (<<>> until geocoded)
  maxResults,      \* getAllPlaces' parameter
  allPlaces,       \* getAllPlaces' accumulator
  nextPageToken,   \* getAllPlaces' nextPageToken
  requestsMade,    \* getAllPlaces' requestsMade
  gapResult,       \* what getAllPlaces returned
  formattedPlaces, \* searchPlaces' aggregated sequence, sorted where it sorts
  thrown,          \* the error searchPlaces threw, if it did
  result,          \* the SearchResult searchPlaces returned, if it did
  response,        \* the handler's response, once it has one
  sent,            \* history: the requests issued, in order
  fetched,         \* history: the records of the pages answered OK, in order
  failedAt,        \* history: index of the page request that failed, or 0
  pages,           \* history: the pages answered OK or ZERO_RESULTS, in order
  geoReply,        \* history: what the geocoder answered (<<>> before it did)
  frames,          \* ConcSpec: the locals of each of two searchPlaces calls
  arrays           \* ConcSpec: the array each call's getAllPlaces created

cfgVars == <<variant, env, event, frames, arrays>>
callVars == <<topN, page, originalQuery>>
llmVars == <<processedQuery, llmReply>>
gapVars == <<maxResults, allPlaces, nextPageToken, requestsMade, gapResult,
             fetched, failedAt, pages>>
geoVars == <<anchorCoords, geoReply>>
outVars == <<thrown, result, response>>
vars == <<variant, env, event, pc, topN, page, originalQuery, processedQuery,
          llmReply, searchQuery, anchorCoords, maxResults, allPlaces,
          nextPageToken, requestsMade, gapResult, formattedPlaces, thrown,
          result, response, sent, fetched, failedAt, pages, geoReply, frames,
          arrays>>

\* ------------------------------------------------------------ inputs
Variants == {"anchor", "llm", "plain"}

\* a body field that is absent (undefined), so that its default applies
Undefined == -1000
TopNInputs == {Undefined, 0, 2, MaxTopN, MaxTopN + 1}
PageInputs == {Undefined, 0} \cup 2..MaxPage
QueryStrings == {<<>>, <<SP>>, <<SP, "p", SP>>}
QueryInputs == {<<>>} \cup {<<q>> : q \in QueryStrings}

PostEvents ==
  [httpMethod : {"POST"}, bodyParses : {TRUE}, query : QueryInputs,
   top_n : TopNInputs, page : PageInputs]
OtherEvents ==
  [httpMethod : {"OPTIONS", "GET", "POST"}, bodyParses : {FALSE},
   query : {<<>>}, top_n : {Undefined}, page : {Undefined}]
Events == PostEvents \cup OtherEvents

\* the places the upstream text search knows of in Spec and FetchSpec
Catalogue ==
  { [place_id |-> 1, rating |-> 35, geo |-> 1000],
    [place_id |-> 2, rating |-> 48, geo |-> 1030] }
PageLists == SeqsUpTo(Catalogue, MaxPageLen)
Statuses == {"OK", "ZERO_RESULTS", "OVER_QUERY_LIMIT"}
\* next_page_token of an answer: absent, or the token the upstream hands
\* out with its k-th page (a different one with every page)
PageTokens == <<"tokA", "tokB", "tokC", "tokD">>
Tokens(k) == {NoToken, PageTokens[Min(k, Len(PageTokens))]}

\* answers of the rewrite model: a rejected request, a reply without
\* choices, or a reply whose first choice has this content
LlmFailures == {"networkError", "invalidJson", "noChoices"}
LlmContents == {<<SP, "p", "p">>, <<SP>>}
LlmReplies ==
  [kind : LlmFailures, content : {<<>>}] \cup
  [kind : {"content"}, content : LlmContents]

GeocodeReplies == {"OK", "OKnoResults", "ZERO_RESULTS", "networkError"}

Request(api, q, tok) == [api |-> api, query |-> q, pagetoken |-> tok]
TextSearches(log) == SelectSeq(log, LAMBDA r : r.api = "textsearch")

Err(name, pg, tp) == [name |-> name, page |-> pg, total_pages |-> tp]

\* ------------------------------------------------------------ ranking
Abs(x) == IF x < 0 THEN -x ELSE x

\* formatPlaceInfo: name, address and the two URLs are functions of the
\* place alone and are left out
formatPlaceInfo(place, anchor) ==
  [place_id |-> place.place_id,
   rating |-> place.rating,
   distance_km |-> IF anchor /= <<>> /\ place.geo /= NoGeo
                   THEN place.geo ELSE NoDist]

\* (x.rating || 0)
RatingOrZero(x) == IF x.rating = NoRating THEN 0 ELSE x.rating

\* the comparator with the rating ascending
CompareRatingAscending(a, b) ==
  IF a.distance_km /= NoDist /\ b.distance_km /= NoDist
  THEN IF Abs(a.distance_km - b.distance_km) < Band
       THEN RatingOrZero(a) - RatingOrZero(b)
       ELSE a.distance_km - b.distance_km
  ELSE IF a.distance_km /= NoDist THEN -1
  ELSE IF b.distance_km /= NoDist THEN 1
  ELSE RatingOrZero(a) - RatingOrZero(b)

\* the comparator handed to formattedPlaces.sort
Compare(a, b) ==
  IF a.distance_km /= NoDist /\ b.distance_km /= NoDist
  THEN IF Abs(a.distance_km - b.distance_km) < Band
       THEN RatingOrZero(b) - RatingOrZero(a)
       ELSE a.distance_km - b.distance_km
  ELSE IF a.distance_km /= NoDist THEN -1
  ELSE IF b.distance_km /= NoDist THEN 1
  ELSE RatingOrZero(b) - RatingOrZero(a)

\* Array.prototype.sort(Compare) as Node's V8 runs it on an array of fewer
\* than 64 elements (getAllPlaces returns at most 60): the leading run is
\* found and, when strictly descending, reversed; the rest is entered by
\* binary insertion.
Reverse(s) == [i \in 1..Len(s) |-> s[Len(s) + 1 - i]]

\* the length of the run that starts the array and reaches at least i - 1
RECURSIVE RunLength(_, _, _)
RunLength(s, i, isDescending) ==
  IF i > Len(s) THEN Len(s)
  ELSE LET order == Compare(s[i], s[i - 1])
       IN IF isDescending /\ order >= 0 THEN i - 1
          ELSE IF ~isDescending /\ order < 0 THEN i - 1
          ELSE RunLength(s, i + 1, isDescending)

\* where pivot goes among the first right elements; left, right count from 0
RECURSIVE BinarySearch(_, _, _, _)
BinarySearch(s, pivot, left, right) ==
  IF left < right
  THEN LET mid == left + ((right - left) \div 2)
       IN IF Compare(pivot, s[mid + 1]) < 0
          THEN BinarySearch(s, pivot, left, mid)
          ELSE BinarySearch(s, pivot, mid + 1, right)
  ELSE left

\* the first start elements are in order; the others are inserted in turn
RECURSIVE BinaryInsertionSort(_, _)
BinaryInsertionSort(s, start) ==
  IF start >= Len(s) THEN s
  ELSE LET pivot == s[start + 1]
           left == BinarySearch(s, pivot, 0, start)
       IN BinaryInsertionSort(
            SubSeq(s, 1, left) \o <<pivot>> \o SubSeq(s, left + 1, start)
              \o SubSeq(s, start + 2, Len(s)),
            start + 1)

ArraySort(s) ==
  IF Len(s) < 2 THEN s
  ELSE LET isDescending == Compare(s[2], s[1]) < 0
           run == RunLength(s, 3, isDescending)
           made == IF isDescending
                   THEN Reverse(SubSeq(s, 1, run)) \o SubSeq(s, run + 1, Len(s))
                   ELSE s
       IN BinaryInsertionSort(made, run)

FormatAll(places, anchor) ==
  [i \in 1..Len(places) |-> formatPlaceInfo(places[i], anchor)]

\* the aggregated sequence searchPlaces slices its page from
Aggregated(v, places, anchor) ==
  IF v = "anchor" THEN ArraySort(FormatAll(places, anchor))
  ELSE FormatAll(places, <<>>)

\* ------------------------------------------------------------ pagination
\* calculatePagination announcing a next page on the last page too
calculatePaginationNextInclusive(totalResults, n, currentPage) ==
  LET totalPages == CeilDiv(totalResults, n)
  IN [current_page |-> currentPage,
      total_results |-> totalResults,
      results_per_page |-> n,
      total_pages |-> totalPages,
      has_next_page |-> currentPage <= totalPages,
      has_prev_page |-> currentPage > 1]

calculatePagination(totalResults, n, currentPage) ==
  LET totalPages == CeilDiv(totalResults, n)
  IN [current_page |-> currentPage,
      total_results |-> totalResults,
      results_per_page |-> n,
      total_pages |-> totalPages,
      has_next_page |-> currentPage < totalPages,
      has_prev_page |-> currentPage > 1]

\* the slice start with the page counted from 0
StartIdxFromZero(n, pg) == pg * n

StartIdx(n, pg) == (pg - 1) * n
EndIdx(n, pg, totalResults) == Min(StartIdx(n, pg) + n, totalResults)
PageSlice(all, n, pg) == Slice(all, StartIdx(n, pg), EndIdx(n, pg, Len(all)))
\* the range check with > for >=
PageMissingStrict(all, n, pg) == StartIdx(n, pg) > Len(all)

PageMissing(all, n, pg) == StartIdx(n, pg) >= Len(all)

SearchResult(status, results, pagination) ==
  [status |-> status, results |-> results, pagination |-> pagination,
   original_query |-> <<>>, processed_query |-> <<>>]

\* ------------------------------------------------------------ handler
Response(code, error, detail, body) ==
  [statusCode |-> code, error |-> error, detail |-> detail, body |-> body]

KeysConfigured ==
  IF variant = "llm" THEN env = "ok" ELSE env /= "noMapsKey"

\* !query || query.trim() === ""
QueryBlank(q) == IF q = <<>> THEN TRUE ELSE Trim(q[1]) = <<>>

\* the handler's catch block
HandlerCatch(err) == Response(500, "Internal server error", <<err>>, <<>>)

\* the handler after searchPlaces returned res
HandlerReturn(res) ==
  Response(200, "", <<>>,
           << IF variant = "llm"
              THEN [res EXCEPT !.original_query = <<originalQuery>>,
                               !.processed_query = <<processedQuery>>]
              ELSE res >>)

Answer(resp) ==
  /\ pc' = "done"
  /\ response' = <<resp>>
  /\ UNCHANGED <<thrown, result>>

\* searchPlaces throws err and the handler catches it
Throws(err) ==
  /\ pc' = "done"
  /\ thrown' = <<err>>
  /\ result' = <<>>
  /\ response' = <<HandlerCatch(err)>>

\* searchPlaces returns res and the handler answers with it
Returns(res) ==
  /\ pc' = "done"
  /\ thrown' = <<>>
  /\ result' = <<res>>
  /\ response' = <<HandlerReturn(res)>>

\* ------------------------------------------------------------ getAllPlaces
\* the while condition, with the request ceiling off by one
LoopContinuesOffByOne(made, len, mr) == made <= maxRequests /\ len < mr

\* the while condition
LoopContinues(made, len, mr) == made < maxRequests /\ len < mr

\* getAllPlaces from its call to its first await
BeginGetAllPlaces(q, mr) ==
  /\ maxResults' = mr
  /\ allPlaces' = <<>>
  /\ nextPageToken' = NoToken
  /\ requestsMade' = 0
  /\ fetched' = <<>>
  /\ failedAt' = 0
  /\ pages' = <<>>
  /\ IF LoopContinues(0, 0, mr)
     THEN /\ pc' = "request"
          /\ sent' = Append(sent, Request("textsearch", q, NoToken))
          /\ gapResult' = <<>>
     ELSE /\ pc' = "gapReturned"
          /\ sent' = sent
          /\ gapResult' = Slice(<<>>, 0, mr)

\* the code after a response that ends the iteration without a throw
AfterResponse(status, results, tok) ==
  LET made == requestsMade + 1
      ok == status = "OK" \/ status = "ZERO_RESULTS"
      places == IF ok THEN allPlaces \o results ELSE allPlaces
      token == IF ok THEN tok ELSE nextPageToken
      again == /\ ok
               /\ Truthy(token)
               /\ Len(places) < maxResults
               /\ LoopContinues(made, Len(places), maxResults)
  IN /\ requestsMade' = made
     /\ allPlaces' = places
     /\ nextPageToken' = token
     /\ fetched' = IF ok THEN fetched \o results ELSE fetched
     /\ failedAt' = IF ok THEN failedAt ELSE Len(TextSearches(sent))
     /\ pages' = IF ok THEN Append(pages, [results |-> results, token |-> tok])
                  ELSE pages
     /\ IF again
        THEN pc' = "delay" /\ gapResult' = gapResult
        ELSE pc' = "gapReturned" /\ gapResult' = Slice(places, 0, maxResults)

\* a text-search request is answered with a parsed JSON object
PageResponse ==
  /\ pc = "request"
  /\ \E status \in Statuses, results \in PageLists,
        tok \in Tokens(Len(TextSearches(sent))) :
       AfterResponse(status, results, tok)
  /\ UNCHANGED <<cfgVars, callVars, llmVars, searchQuery, geoVars,
                 maxResults, formattedPlaces, outVars, sent>>

\* getAllPlaces without its try/catch: the failure reaches searchPlaces,
\* which rethrows it to the handler
PageThrowsPropagates ==
  /\ pc = "request"
  /\ failedAt' = Len(TextSearches(sent))
  /\ Throws(Err("fetch", page, 0))
  /\ UNCHANGED <<cfgVars, callVars, llmVars, searchQuery, geoVars,
                 maxResults, allPlaces, nextPageToken, requestsMade, fetched, pages,
                 gapResult, formattedPlaces, sent>>

\* the catch block giving up what was accumulated
PageThrowsDiscards ==
  /\ pc = "request"
  /\ failedAt' = Len(TextSearches(sent))
  /\ gapResult' = <<>>
  /\ pc' = "gapReturned"
  /\ UNCHANGED <<cfgVars, callVars, llmVars, searchQuery, geoVars,
                 maxResults, allPlaces, nextPageToken, requestsMade, fetched, pages,
                 formattedPlaces, outVars, sent>>

\* a text-search request fails (network error, invalid JSON, a body the
\* loop cannot read): the catch block, then the return
PageThrows ==
  /\ pc = "request"
  /\ failedAt' = Len(TextSearches(sent))
  /\ gapResult' = Slice(allPlaces, 0, maxResults)
  /\ pc' = "gapReturned"
  /\ UNCHANGED <<cfgVars, callVars, llmVars, searchQuery, geoVars,
                 maxResults, allPlaces, nextPageToken, requestsMade, fetched, pages,
                 formattedPlaces, outVars, sent>>

\* the next request going out with the token of the answer before last
DelayElapsedStaleToken ==
  /\ pc = "delay"
  /\ sent' = Append(sent, Request("textsearch", searchQuery,
                     IF Len(pages) > 1 THEN pages[Len(pages) - 1].token
                     ELSE nextPageToken))
  /\ pc' = "request"
  /\ UNCHANGED <<cfgVars, callVars, llmVars, searchQuery, geoVars,
                 gapVars, formattedPlaces, outVars>>

\* the 2 s timer fires and the next request goes out with the token
DelayElapsed ==
  /\ pc = "delay"
  /\ sent' = Append(sent, Request("textsearch", searchQuery, nextPageToken))
  /\ pc' = "request"
  /\ UNCHANGED <<cfgVars, callVars, llmVars, searchQuery, geoVars,
                 gapVars, formattedPlaces, outVars>>

\* ------------------------------------------------------------ searchPlaces
\* top_n must be between 1 and 60, with the upper limit forgotten
ValidTopNNoUpper(tn) == ~(tn < 1)

\* top_n must be between 1 and 60
ValidTopN(tn) == ~(tn < 1 \/ tn > MaxTopN)

\* page must be 1 or greater
ValidPage(pg) == ~(pg < 1)

\* searchPlaces from its call to its first await
BeginSearch(q, tn, pg) ==
  /\ searchQuery' = q
  /\ IF ~ValidTopN(tn)
     THEN Throws(Err("top_n", pg, 0)) /\ UNCHANGED <<gapVars, sent>>
     ELSE IF ~ValidPage(pg)
     THEN Throws(Err("page", pg, 0)) /\ UNCHANGED <<gapVars, sent>>
     ELSE IF variant = "anchor"
     THEN /\ pc' = "geocode"
          /\ sent' = Append(sent, Request("geocode", <<>>, NoToken))
          /\ UNCHANGED <<gapVars, outVars>>
     ELSE BeginGetAllPlaces(q, DefaultMaxResults) /\ UNCHANGED outVars
  /\ UNCHANGED <<geoVars, formattedPlaces>>

\* searchPlaces catching the geocoder's failure and going on with no anchor
GeocodeResponseDegrades ==
  /\ pc = "geocode"
  /\ \E reply \in GeocodeReplies :
       /\ geoReply' = <<reply>>
       /\ anchorCoords' = IF reply = "OK" THEN <<"coords">> ELSE <<>>
       /\ BeginGetAllPlaces(searchQuery, DefaultMaxResults)
       /\ UNCHANGED outVars
  /\ UNCHANGED <<cfgVars, callVars, llmVars, searchQuery, formattedPlaces>>

\* the geocode request is answered; getCoordinates throws unless the
\* status is OK with at least one candidate, and searchPlaces rethrows
GeocodeResponse ==
  /\ pc = "geocode"
  /\ \E reply \in GeocodeReplies :
       /\ geoReply' = <<reply>>
       /\ IF reply = "OK"
          THEN /\ anchorCoords' = <<"coords">>
               /\ BeginGetAllPlaces(searchQuery, DefaultMaxResults)
               /\ UNCHANGED outVars
          ELSE /\ Throws(Err("Geocoding", page, 0))
               /\ UNCHANGED <<anchorCoords, gapVars, sent>>
  /\ UNCHANGED <<cfgVars, callVars, llmVars, searchQuery, formattedPlaces>>

\* searchPlaces after getAllPlaces returned
SearchPlacesResume ==
  /\ pc = "gapReturned"
  /\ \/ /\ Len(gapResult) = 0
        /\ formattedPlaces' = <<>>
        /\ Returns(SearchResult("ZERO_RESULTS", <<>>,
                                calculatePagination(0, topN, page)))
     \/ /\ Len(gapResult) /= 0
        /\ LET all == Aggregated(variant, gapResult, anchorCoords)
           IN /\ formattedPlaces' = all
              /\ IF PageMissing(all, topN, page)
                 THEN Throws(Err("PageNotFound", page,
                                 CeilDiv(Len(all), topN)))
                 ELSE Returns(SearchResult("OK", PageSlice(all, topN, page),
                                calculatePagination(Len(all), topN, page)))
  /\ UNCHANGED <<cfgVars, callVars, llmVars, searchQuery, geoVars,
                 gapVars, sent>>

\* ------------------------------------------------------------ rewrite
\* preprocessQueryWithLLM with no fallback value
preprocessNoFallback(userQuery, reply) ==
  IF reply.kind = "content" THEN Trim(reply.content) ELSE <<>>

\* preprocessQueryWithLLM: the first choice's content, trimmed; the
\* original query when the request or the reading of the reply throws
preprocessQueryWithLLM(userQuery, reply) ==
  IF reply.kind = "content" THEN Trim(reply.content) ELSE userQuery

RewriteResponse ==
  /\ pc = "rewrite"
  /\ \E reply \in LlmReplies :
       /\ llmReply' = <<reply>>
       /\ processedQuery' = preprocessQueryWithLLM(originalQuery, reply)
       /\ BeginSearch(processedQuery', topN, page)
  /\ UNCHANGED <<cfgVars, callVars>>

\* ------------------------------------------------------------ exports.handler
HandlerEntry ==
  /\ pc = "start"
  /\ LET tn == IF event.top_n = Undefined THEN DefaultTopN ELSE event.top_n
         pg == IF event.page = Undefined THEN DefaultPage ELSE event.page
         quiet == UNCHANGED <<callVars, searchQuery, geoVars, gapVars,
                              formattedPlaces, sent>>
     IN \/ /\ event.httpMethod = "OPTIONS"
           /\ Answer(Response(200, "", <<>>, <<>>))
           /\ quiet
        \/ /\ event.httpMethod \notin {"OPTIONS", "POST"}
           /\ Answer(Response(405, "Method not allowed", <<>>, <<>>))
           /\ quiet
        \/ /\ event.httpMethod = "POST"
           /\ ~KeysConfigured
           /\ Answer(Response(500, "API key not configured", <<>>, <<>>))
           /\ quiet
        \/ /\ event.httpMethod = "POST"
           /\ KeysConfigured
           /\ ~event.bodyParses
           /\ Answer(HandlerCatch(Err("JSON.parse", 0, 0)))
           /\ quiet
        \/ /\ event.httpMethod = "POST"
           /\ KeysConfigured
           /\ event.bodyParses
           /\ QueryBlank(event.query)
           /\ topN' = tn
           /\ page' = pg
           /\ Answer(Response(400, "Query parameter is required", <<>>, <<>>))
           /\ UNCHANGED <<originalQuery, searchQuery, geoVars, gapVars,
                          formattedPlaces, sent>>
        \/ /\ event.httpMethod = "POST"
           /\ KeysConfigured
           /\ event.bodyParses
           /\ ~QueryBlank(event.query)
           /\ topN' = tn
           /\ page' = pg
           /\ IF variant = "llm"
              THEN /\ originalQuery' = Trim(event.query[1])
                   /\ pc' = "rewrite"
                   /\ sent' = Append(sent, Request("llm", Trim(event.query[1]),
                                                   NoToken))
                   /\ UNCHANGED <<searchQuery, geoVars, gapVars,
                                  formattedPlaces, outVars>>
              ELSE /\ originalQuery' = originalQuery
                   /\ BeginSearch(Trim(event.query[1]), tn, pg)
  /\ UNCHANGED <<cfgVars, llmVars>>

\* ------------------------------------------------------------ calls
\* two invocations of searchPlaces in one process (ConcSpec); the other
\* specifications run one invocation and leave these idle
Calls == {1, 2}

IdleFrame ==
  [pc |-> "idle", topN |-> DefaultTopN, page |-> DefaultPage,
   anchorCoords |-> <<>>, nextPageToken |-> NoToken, requestsMade |-> 0,
   gapResult |-> <<>>, thrown |-> <<>>, result |-> <<>>, pages |-> <<>>,
   failure |-> "none"]
NoFrames == [c \in Calls |-> IdleFrame]
NoArrays == [c \in Calls |-> <<>>]

\* ------------------------------------------------------------ Spec
\* one invocation of one of the three handlers
EnvsOf(v) == IF v = "llm" THEN {"ok", "noMapsKey", "noDeepseekKey"}
             ELSE {"ok", "noMapsKey"}

Init ==
  /\ variant \in Variants
  /\ env \in EnvsOf(variant)
  /\ event \in Events
  /\ pc = "start"
  /\ topN = Undefined
  /\ page = Undefined
  /\ originalQuery = <<>>
  /\ processedQuery = <<>>
  /\ llmReply = <<>>
  /\ searchQuery = <<>>
  /\ anchorCoords = <<>>
  /\ maxResults = DefaultMaxResults
  /\ allPlaces = <<>>
  /\ nextPageToken = NoToken
  /\ requestsMade = 0
  /\ gapResult = <<>>
  /\ formattedPlaces = <<>>
  /\ thrown = <<>>
  /\ result = <<>>
  /\ response = <<>>
  /\ sent = <<>>
  /\ fetched = <<>>
  /\ failedAt = 0
  /\ pages = <<>>
  /\ geoReply = <<>>
  /\ frames = NoFrames
  /\ arrays = NoArrays

Next ==
  \/ HandlerEntry
  \/ RewriteResponse
  \/ GeocodeResponse
  \/ PageResponse
  \/ PageThrows
  \/ DelayElapsed
  \/ SearchPlacesResume

Spec == Init /\ [][Next]_vars

\* ------------------------------------------------------------ FetchSpec
\* getAllPlaces(query, anchorCoords, maxResults) on its own, for every
\* maxResults of DirectResults
DirectResults == 0..MaxDirectResults \cup {DefaultMaxResults}

DirectEvent ==
  [httpMethod |-> "POST", bodyParses |-> TRUE, query |-> <<<<"p">>>>,
   top_n |-> Undefined, page |-> Undefined]

FetchInit ==
  /\ variant \in Variants
  /\ env = "ok"
  /\ event = DirectEvent
  /\ pc = "call"
  /\ topN = DefaultTopN
  /\ page = DefaultPage
  /\ originalQuery = <<>>
  /\ processedQuery = <<>>
  /\ llmReply = <<>>
  /\ searchQuery = <<"p">>
  /\ anchorCoords = IF variant = "anchor" THEN <<"coords">> ELSE <<>>
  /\ maxResults \in DirectResults
  /\ allPlaces = <<>>
  /\ nextPageToken = NoToken
  /\ requestsMade = 0
  /\ gapResult = <<>>
  /\ formattedPlaces = <<>>
  /\ thrown = <<>>
  /\ result = <<>>
  /\ response = <<>>
  /\ sent = <<>>
  /\ fetched = <<>>
  /\ failedAt = 0
  /\ pages = <<>>
  /\ geoReply = <<>>
  /\ frames = NoFrames
  /\ arrays = NoArrays

DirectCall ==
  /\ pc = "call"
  /\ BeginGetAllPlaces(searchQuery, maxResults)
  /\ UNCHANGED <<cfgVars, callVars, llmVars, searchQuery, geoVars,
                 formattedPlaces, outVars>>

FetchNext ==
  \/ DirectCall
  \/ PageResponse
  \/ PageThrows
  \/ DelayElapsed

FetchSpec == FetchInit /\ [][FetchNext]_vars

\* every request is answered or fails, and the timer fires
FairFetchSpec == FetchSpec /\ WF_vars(FetchNext)

\* ------------------------------------------------------------ RankSpec
\* the anchor handler's searchPlaces at the return of getAllPlaces, for
\* every list of up to MaxRankLen places with these distances and ratings
RankGeos == {1000, 1040, 1080, NoGeo}
RankRatings == {NoRating, 35, 48}
RankPlaces ==
  {[place_id |-> 100 * g + r, rating |-> r, geo |-> g] :
     g \in RankGeos, r \in RankRatings}

RankInit ==
  /\ variant = "anchor"
  /\ env = "ok"
  /\ \E n \in {2, MaxTopN}, pg \in {0, 2} :
       event = [httpMethod |-> "POST", bodyParses |-> TRUE,
                query |-> <<<<"p">>>>, top_n |-> n,
                page |-> IF pg = 0 THEN Undefined ELSE pg]
  /\ pc = "gapReturned"
  /\ topN = event.top_n
  /\ page = IF event.page = Undefined THEN DefaultPage ELSE event.page
  /\ originalQuery = <<>>
  /\ processedQuery = <<>>
  /\ llmReply = <<>>
  /\ searchQuery = <<"p">>
  /\ anchorCoords = <<"coords">>
  /\ maxResults = DefaultMaxResults
  /\ allPlaces \in SeqsUpTo(RankPlaces, MaxRankLen)
  /\ nextPageToken = NoToken
  /\ requestsMade = 1
  /\ gapResult = allPlaces
  /\ formattedPlaces = <<>>
  /\ thrown = <<>>
  /\ result = <<>>
  /\ response = <<>>
  /\ sent = <<Request("geocode", <<>>, NoToken),
              Request("textsearch", <<"p">>, NoToken)>>
  /\ fetched = allPlaces
  /\ failedAt = 0
  /\ pages = <<[results |-> allPlaces, token |-> NoToken]>>
  /\ geoReply = <<"OK">>
  /\ frames = NoFrames
  /\ arrays = NoArrays

RankNext == SearchPlacesResume

RankSpec == RankInit /\ [][RankNext]_vars

\* ------------------------------------------------------------ ConcSpec
\* two calls of the anchor handler's searchPlaces with valid top_n and page,
\* interleaved at their awaits; between two awaits a call runs alone (one
\* thread, run to completion)
\* the upstream's places, and its pages: of one record at most
ConcCatalogue ==
  Catalogue \cup {[place_id |-> k, rating |-> NoRating, geo |-> NoGeo] :
                    k \in 3..MaxConcPlaces}
ConcLists == {<<>>} \cup {<<p>> : p \in ConcCatalogue}
ConcTopN == 2
\* call 1 asks for page 1, call 2 for page 2
ConcPage(c) == c

\* the array object that call c's getAllPlaces pushes to, were allPlaces
\* declared once at module level
ArrayShared(c) == 1

\* the array object that call c's getAllPlaces pushes to: const allPlaces = []
\* creates one per call
ArrayOf(c) == c

soloVars == <<variant, env, event, pc, topN, page, originalQuery,
              processedQuery, llmReply, searchQuery, anchorCoords, maxResults,
              allPlaces, nextPageToken, requestsMade, gapResult,
              formattedPlaces, thrown, result, response, sent, fetched,
              failedAt, pages, geoReply>>

ConcInit ==
  /\ variant = "anchor"
  /\ env = "ok"
  /\ event = DirectEvent
  /\ pc = "done"
  /\ topN = DefaultTopN
  /\ page = DefaultPage
  /\ originalQuery = <<>>
  /\ processedQuery = <<>>
  /\ llmReply = <<>>
  /\ searchQuery = <<"p">>
  /\ anchorCoords = <<>>
  /\ maxResults = DefaultMaxResults
  /\ allPlaces = <<>>
  /\ nextPageToken = NoToken
  /\ requestsMade = 0
  /\ gapResult = <<>>
  /\ formattedPlaces = <<>>
  /\ thrown = <<>>
  /\ result = <<>>
  /\ response = <<>>
  /\ sent = <<>>
  /\ fetched = <<>>
  /\ failedAt = 0
  /\ pages = <<>>
  /\ geoReply = <<>>
  /\ frames = [c \in Calls |-> [IdleFrame EXCEPT !.pc = "call",
                                                  !.topN = ConcTopN,
                                                  !.page = ConcPage(c)]]
  /\ arrays = NoArrays

\* searchPlaces of call c from its call to its first await
CallSearchPlaces(c) ==
  /\ frames[c].pc = "call"
  /\ ValidTopN(frames[c].topN)
  /\ ValidPage(frames[c].page)
  /\ frames' = [frames EXCEPT ![c].pc = "geocode"]
  /\ UNCHANGED <<arrays, soloVars>>

\* call c's geocode request is answered
CallGeocoded(c) ==
  /\ frames[c].pc = "geocode"
  /\ \E reply \in GeocodeReplies :
       IF reply = "OK"
       THEN /\ frames' = [frames EXCEPT ![c].anchorCoords = <<"coords">>,
                                        ![c].nextPageToken = NoToken,
                                        ![c].requestsMade = 0,
                                        ![c].pc = "request"]
            /\ arrays' = [arrays EXCEPT ![ArrayOf(c)] = <<>>]
       ELSE /\ frames' = [frames EXCEPT
                           ![c].thrown = <<Err("Geocoding", frames[c].page, 0)>>,
                           ![c].pc = "done"]
            /\ arrays' = arrays
  /\ UNCHANGED soloVars

\* call c's text-search request is answered with a parsed JSON object
CallPageAnswered(c) ==
  /\ frames[c].pc = "request"
  /\ \E status \in Statuses, results \in ConcLists,
        tok \in Tokens(frames[c].requestsMade + 1) :
       LET f == frames[c]
           made == f.requestsMade + 1
           ok == status = "OK" \/ status = "ZERO_RESULTS"
           places == IF ok THEN arrays[ArrayOf(c)] \o results
                     ELSE arrays[ArrayOf(c)]
           token == IF ok THEN tok ELSE f.nextPageToken
           again == /\ ok
                    /\ Truthy(token)
                    /\ Len(places) < DefaultMaxResults
                    /\ LoopContinues(made, Len(places), DefaultMaxResults)
       IN /\ arrays' = [arrays EXCEPT ![ArrayOf(c)] = places]
          /\ frames' = [frames EXCEPT ![c] =
               [f EXCEPT
                  !.requestsMade = made,
                  !.nextPageToken = token,
                  !.pages = IF ok THEN Append(f.pages, [results |-> results,
                                                        token |-> tok])
                            ELSE f.pages,
                  !.failure = IF ok THEN "none" ELSE "status",
                  !.pc = IF again THEN "delay" ELSE "gapReturned",
                  !.gapResult = IF again THEN <<>>
                                ELSE Slice(places, 0, DefaultMaxResults)]]
  /\ UNCHANGED soloVars

\* call c's text-search request fails: the catch block, then the return
CallPageFailed(c) ==
  /\ frames[c].pc = "request"
  /\ frames' = [frames EXCEPT
                  ![c].failure = "threw",
                  ![c].gapResult = Slice(arrays[ArrayOf(c)], 0,
                                         DefaultMaxResults),
                  ![c].pc = "gapReturned"]
  /\ UNCHANGED <<arrays, soloVars>>

\* call c's 2 s timer fires and its next request goes out
CallDelayElapsed(c) ==
  /\ frames[c].pc = "delay"
  /\ frames' = [frames EXCEPT ![c].pc = "request"]
  /\ UNCHANGED <<arrays, soloVars>>

\* call c's searchPlaces after its getAllPlaces returned
CallResumes(c) ==
  /\ frames[c].pc = "gapReturned"
  /\ LET f == frames[c]
         all == Aggregated("anchor", f.gapResult, f.anchorCoords)
     IN frames' = [frames EXCEPT ![c] =
          IF Len(f.gapResult) = 0
          THEN [f EXCEPT !.pc = "done",
                         !.result = <<SearchResult("ZERO_RESULTS", <<>>,
                                       calculatePagination(0, f.topN, f.page))>>]
          ELSE IF PageMissing(all, f.topN, f.page)
          THEN [f EXCEPT !.pc = "done",
                         !.thrown = <<Err("PageNotFound", f.page,
                                          CeilDiv(Len(all), f.topN))>>]
          ELSE [f EXCEPT !.pc = "done",
                         !.result = <<SearchResult("OK",
                                       PageSlice(all, f.topN, f.page),
                                       calculatePagination(Len(all), f.topN,
                                                           f.page))>>]]
  /\ UNCHANGED <<arrays, soloVars>>

ConcNext ==
  \E c \in Calls :
    \/ CallSearchPlaces(c)
    \/ CallGeocoded(c)
    \/ CallPageAnswered(c)
    \/ CallPageFailed(c)
    \/ CallDelayElapsed(c)
    \/ CallResumes(c)

ConcSpec == ConcInit /\ [][ConcNext]_vars

\* ------------------------------------------------------------ claims
\* C1: whatever the upstream answers (also when every answer carries a
\* continuation token), one call of getAllPlaces issues at most 3
\* text-search requests, returns at most maxResults records, and returns.
C1_FetchCeiling ==
  /\ [](/\ Len(TextSearches(sent)) <= 3
        /\ requestsMade <= 3
        /\ pc = "gapReturned" => Len(gapResult) <= maxResults)
  /\ <>(pc = "gapReturned")

\* three requests, each answered with a token, and more records than asked
C1_Witness ==
  /\ pc = "gapReturned"
  /\ Len(TextSearches(sent)) = 3
  /\ requestsMade = 3
  /\ Truthy(nextPageToken)
  /\ Len(allPlaces) > maxResults
  /\ Len(gapResult) = maxResults

\* C2: with status OK the returned page is the slice of the aggregated
\* sequence that starts at (page-1)*topN and has
\* min(topN, total - (page-1)*topN) elements, and the pages 1..total_pages
\* put one behind the other are the aggregated sequence, every element once.
RECURSIVE ConcatPages(_, _, _)
ConcatPages(all, n, k) ==
  IF k = 0 THEN <<>> ELSE ConcatPages(all, n, k - 1) \o PageSlice(all, n, k)

PagesNeeded(total, n) == CHOOSE k \in 0..total : k * n >= total /\ (k - 1) * n < total

C2_PageSlices ==
  (result /= <<>> /\ result[1].status = "OK") =>
    LET all == formattedPlaces
        total == Len(all)
        r == result[1].results
    IN /\ total >= 1
       /\ Len(r) = Min(topN, total - (page - 1) * topN)
       /\ \A i \in 1..Len(r) : r[i] = all[(page - 1) * topN + i]
       /\ ConcatPages(all, topN, PagesNeeded(total, topN)) = all

\* the second of two pages, shorter than the first
C2_Witness ==
  /\ result /= <<>>
  /\ result[1].status = "OK"
  /\ Len(formattedPlaces) = 6
  /\ topN = 5
  /\ page = 2
  /\ Len(result[1].results) = 1

\* C3: the sorted sequence respects the composite ranking on every pair.
\* x placed before y is in order when: not (x without and y with a
\* distance); both with distances 0.5 km or more apart, x the nearer; both
\* with distances less than 0.5 km apart, or both without, x rated no
\* lower (a missing rating counting 0).
RatingOf(x) == IF x.rating = NoRating THEN 0 ELSE x.rating
HasDist(x) == x.distance_km /= NoDist
Near(x, y) == HasDist(x) /\ HasDist(y) /\ Abs(x.distance_km - y.distance_km) < 50
Far(x, y) == HasDist(x) /\ HasDist(y) /\ Abs(x.distance_km - y.distance_km) >= 50

NullsLast(x, y) == ~(~HasDist(x) /\ HasDist(y))

PairRanked(x, y) ==
  /\ NullsLast(x, y)
  /\ Far(x, y) => x.distance_km < y.distance_km
  /\ (Near(x, y) \/ (~HasDist(x) /\ ~HasDist(y))) => RatingOf(x) >= RatingOf(y)

AllPairsRanked(s) ==
  \A i, j \in 1..Len(s) : i < j => PairRanked(s[i], s[j])

Sorted == variant = "anchor" /\ pc = "done" /\ formattedPlaces /= <<>>

RuleBefore(x, y) == ~PairRanked(y, x)
RuleTie(x, y) == PairRanked(x, y) /\ PairRanked(y, x)

\* the ranking orders the entries of s consistently
RuleConsistent(s) ==
  \A i, j, k \in 1..Len(s) :
    /\ RuleBefore(s[i], s[j]) /\ RuleBefore(s[j], s[k]) => RuleBefore(s[i], s[k])
    /\ RuleTie(s[i], s[j]) /\ RuleTie(s[j], s[k]) => RuleTie(s[i], s[k])

Resumed == pc = "done" /\ TextSearches(sent) /= <<>>

\* C4 as stated: when the page fetcher returns no records, searchPlaces
\* returns ZERO_RESULTS with no results, total_results = 0, total_pages = 0
\* and has_next_page = has_prev_page = false, for every page >= 1.
C4_ZeroResultsNoPrev ==
  (Resumed /\ Len(gapResult) = 0) =>
    /\ thrown = <<>>
    /\ result /= <<>>
    /\ result[1].status = "ZERO_RESULTS"
    /\ result[1].results = <<>>
    /\ result[1].pagination.total_results = 0
    /\ result[1].pagination.total_pages = 0
    /\ result[1].pagination.has_next_page = FALSE
    /\ result[1].pagination.has_prev_page = FALSE

\* C4, amended: the same, but has_prev_page is true exactly when
\* page > 1 (so false for page 1).
C4_ZeroResults ==
  (Resumed /\ Len(gapResult) = 0) =>
    /\ thrown = <<>>
    /\ result /= <<>>
    /\ result[1].status = "ZERO_RESULTS"
    /\ result[1].results = <<>>
    /\ result[1].pagination.total_results = 0
    /\ result[1].pagination.total_pages = 0
    /\ result[1].pagination.has_next_page = FALSE
    /\ result[1].pagination.has_prev_page = (page > 1)

\* no records after two answered requests, page 2 of 60 asked for
C4_Witness ==
  /\ Resumed
  /\ Len(gapResult) = 0
  /\ requestsMade = 2
  /\ topN = 60
  /\ page = 2
  /\ result /= <<>>

\* C5: with at least one place aggregated, searchPlaces throws the
\* page-not-found error, carrying ceil(total_results / topN), when
\* (page-1)*topN >= total_results, and only then.
C5_PageOutOfRange ==
  (Resumed /\ Len(gapResult) >= 1) =>
    LET total == Len(gapResult)
        beyond == (page - 1) * topN >= total
        missing == thrown /= <<>> /\ thrown[1].name = "PageNotFound"
    IN /\ beyond <=> missing
       /\ beyond => /\ result = <<>>
                    /\ thrown[1].total_pages = PagesNeeded(total, topN)
                    /\ thrown[1].page = page

\* page 3 asked for where 4 places make 2 pages of 2
C5_Witness ==
  /\ Resumed
  /\ Len(gapResult) = 4
  /\ topN = 2
  /\ page = 3
  /\ thrown /= <<>>
  /\ thrown[1].total_pages = 2

\* searchPlaces has been called
SearchCalled ==
  \/ pc \in {"geocode", "request", "delay", "gapReturned"}
  \/ thrown /= <<>>
  \/ result /= <<>>

IsValidationError(e) == e.name = "top_n" \/ e.name = "page"

\* C6: searchPlaces called with topN < 1, topN > 60 or page < 1 throws a
\* validation error and has issued no geocode and no text-search request.
C6_ValidationFirst ==
  (SearchCalled /\ (topN < 1 \/ topN > 60 \/ page < 1)) =>
    /\ pc = "done"
    /\ result = <<>>
    /\ thrown /= <<>>
    /\ IsValidationError(thrown[1])
    /\ \A i \in 1..Len(sent) : sent[i].api \notin {"geocode", "textsearch"}

\* top_n = 61 in the anchor handler
C6_Witness ==
  /\ variant = "anchor"
  /\ SearchCalled
  /\ topN = 61
  /\ thrown /= <<>>
  /\ thrown[1].name = "top_n"
  /\ sent = <<>>

\* C7: a request with top_n or page out of range, and a request for a page
\* beyond the aggregated results, end in a 4xx response, never a 5xx.
C7_ClientErrorsAre4xx ==
  (pc = "done" /\ thrown /= <<>>
     /\ thrown[1].name \in {"top_n", "page", "PageNotFound"}) =>
    /\ response[1].statusCode >= 400
    /\ response[1].statusCode <= 499

\* C8: in the llm handler, when the rewrite call fails (network error,
\* invalid JSON, no choices) processed_query is original_query, the search
\* runs with the original query, the response of a search that returned
\* reports both, and no error other than searchPlaces' own reaches the
\* caller.
RewriteFailed == llmReply /= <<>> /\ llmReply[1].kind /= "content"

C8_RewriteFallback ==
  RewriteFailed =>
    /\ variant = "llm"
    /\ processedQuery = originalQuery
    /\ originalQuery = Trim(event.query[1])
    /\ searchQuery = originalQuery
    /\ \A i \in 1..Len(sent) :
         sent[i].api = "textsearch" => sent[i].query = originalQuery
    /\ (topN >= 1 /\ topN <= 60 /\ page >= 1) => TextSearches(sent) /= <<>>
    /\ result /= <<>> =>
         /\ response[1].statusCode = 200
         /\ response[1].body[1].original_query = <<originalQuery>>
         /\ response[1].body[1].processed_query = <<originalQuery>>
    /\ thrown /= <<>> =>
         thrown[1].name \in {"top_n", "page", "PageNotFound"}

\* the rewrite reply had no choices and the search returned places
C8_Witness ==
  /\ RewriteFailed
  /\ llmReply[1].kind = "noChoices"
  /\ event.query[1] = <<SP, "p", SP>>
  /\ result /= <<>>
  /\ result[1].status = "OK"
  /\ response[1].body[1].processed_query = <<<<"p">>>>

\* the first maxResults of the records fetched
FetchedUpTo(n) ==
  SubSeq(fetched, 1, IF Len(fetched) < n THEN Len(fetched) ELSE n)

\* C9: when the k-th page request fails (bad status or thrown),
\* getAllPlaces returns the records of pages 1..k-1 in order, cut to
\* maxResults, and issues no request after it.
C9_PartialOnFailure ==
  failedAt /= 0 =>
    /\ pc = "gapReturned"
    /\ gapResult = FetchedUpTo(maxResults)
    /\ Len(TextSearches(sent)) = failedAt

\* the third request fails after two pages with four records
C9_Witness ==
  /\ failedAt = 3
  /\ pc = "gapReturned"
  /\ Len(fetched) = 4
  /\ gapResult = fetched
  /\ requestsMade = 2

\* C10: when the first page request fails, searchPlaces returns
\* ZERO_RESULTS with no results and does not throw.
C10_FirstPageFailure ==
  failedAt = 1 =>
    /\ pc \in {"gapReturned", "done"}
    /\ pc = "done" =>
         /\ thrown = <<>>
         /\ result /= <<>>
         /\ result[1].status = "ZERO_RESULTS"
         /\ result[1].results = <<>>
         /\ response[1].statusCode = 200

\* the first request of the anchor handler throws
C10_Witness ==
  /\ failedAt = 1
  /\ requestsMade = 0
  /\ variant = "anchor"
  /\ pc = "done"
  /\ result /= <<>>

\* no two records of s have the same place_id
DistinctIds(s) ==
  \A i, j \in 1..Len(s) : i /= j => s[i].place_id /= s[j].place_id

\* C11: the sequence getAllPlaces returns holds no two records with the same
\* place_id, also when the upstream lists one place on two different pages
\* (every single page being free of repetitions).
C11_Deduplicated ==
  (/\ pc \in {"gapReturned", "done"}
   /\ \A k \in 1..Len(pages) : DistinctIds(pages[k].results))
  => DistinctIds(gapResult)

\* the number of records on the first k pages answered
RECURSIVE CountUpTo(_)
CountUpTo(k) == IF k = 0 THEN 0 ELSE CountUpTo(k - 1) + Len(pages[k].results)

\* the text-search requests that have been answered or have failed
Answered == Len(pages) + (IF failedAt = 0 THEN 0 ELSE 1)

\* the requests of the call that are out and not yet answered
InFlight ==
  (Len(TextSearches(sent)) - Answered)
  + (IF \E i \in 1..Len(sent) : sent[i].api = "geocode" /\ geoReply = <<>>
     THEN 1 ELSE 0)
  + (IF \E i \in 1..Len(sent) : sent[i].api = "llm" /\ llmReply = <<>>
     THEN 1 ELSE 0)

\* what holds of the requests issued so far
OrderedSoFar ==
  LET ts == TextSearches(sent)
  IN /\ InFlight \in {0, 1}
     /\ InFlight = 1 <=> pc \in {"rewrite", "geocode", "request"}
     /\ (variant = "anchor" /\ ts /= <<>>) => geoReply = <<"OK">>
     /\ failedAt /= 0 => failedAt = Len(ts) /\ Len(pages) = failedAt - 1
     /\ ts /= <<>> => ts[1].pagetoken = NoToken
     /\ \A k \in 1..(Len(ts) - 1) :
          /\ k <= Len(pages)
          /\ Truthy(pages[k].token)
          /\ CountUpTo(k) < maxResults
          /\ ts[k + 1].pagetoken = pages[k].token
     /\ pc = "delay" => ts /= <<>>

\* what holds of every step: only the timer's end issues a further request,
\* it issues exactly one, and the timer starts only at an answer
OrderedStep ==
  LET before == Len(TextSearches(sent))
      after == Len(TextSearches(sent'))
  IN /\ after \in {before, before + 1}
     /\ (after = before + 1 /\ before = 0) => pc \in {"start", "rewrite", "geocode"}
     /\ (after = before + 1 /\ before > 0) => pc = "delay"
     /\ (pc = "delay" /\ pc' /= "delay") => after = before + 1 /\ pc' = "request"
     /\ (pc /= "delay" /\ pc' = "delay") => pc = "request" /\ Len(pages') = Len(pages) + 1

\* C13: the requests of one call go out one after the other: the geocode
\* answer precedes the first page request, which carries no token and follows
\* no delay; request k+1 follows an OK/ZERO_RESULTS answer k that carried a
\* token and left the count below maxResults, carries that token, and follows
\* one delay; never are two requests of the call in flight.
C13_Sequential == []OrderedSoFar /\ [][OrderedStep]_vars

\* the anchor handler issued three page requests, the second and third with
\* the tokens of the first and second answers
C13_Witness ==
  LET ts == TextSearches(sent)
  IN /\ variant = "anchor"
     /\ pc = "done"
     /\ geoReply = <<"OK">>
     /\ Len(ts) = 3
     /\ ts[2].pagetoken = "tokA"
     /\ ts[3].pagetoken = "tokB"
     /\ Len(pages) = 3

\* the record lists of the pages ps, one behind the other
RECURSIVE FlattenPages(_)
FlattenPages(ps) ==
  IF ps = <<>> THEN <<>> ELSE ps[1].results \o FlattenPages(Tail(ps))

\* C14: what getAllPlaces returns is the first maxResults records of the
\* pages answered OK or ZERO_RESULTS put one behind the other in request
\* order: no record is dropped from the middle, reordered or invented.
C14_ConcatPrefix ==
  pc = "gapReturned" =>
    LET all == FlattenPages(pages)
    IN /\ Len(gapResult) = Min(Len(all), maxResults)
       /\ \A i \in 1..Len(gapResult) : gapResult[i] = all[i]

\* two pages of two records each were fetched and three were asked for
C14_Witness ==
  /\ pc = "gapReturned"
  /\ maxResults = 3
  /\ Len(pages) = 2
  /\ Len(pages[1].results) = 2
  /\ Len(pages[2].results) = 2
  /\ pages[1].results[1] /= pages[2].results[2]
  /\ gapResult = pages[1].results \o <<pages[2].results[1]>>

\* C15: every SearchResult returned has total_pages the least number of
\* pages of results_per_page that hold total_results, has_next_page exactly
\* when current_page < total_pages and has_prev_page exactly when
\* current_page > 1; with status OK the page asked for exists and holds
\* between 1 and results_per_page records.
C15_Pagination ==
  result /= <<>> =>
    LET p == result[1].pagination
    IN /\ result[1].status \in {"OK", "ZERO_RESULTS"}
       /\ p.current_page = page
       /\ p.results_per_page = topN
       /\ p.total_pages >= 0
       /\ p.total_pages * p.results_per_page >= p.total_results
       /\ (p.total_pages - 1) * p.results_per_page < p.total_results
       /\ p.has_next_page = (p.current_page < p.total_pages)
       /\ p.has_prev_page = (p.current_page > 1)
       /\ result[1].status = "OK" =>
            /\ 1 <= p.current_page
            /\ p.current_page <= p.total_pages
            /\ 1 <= Len(result[1].results)
            /\ Len(result[1].results) <= p.results_per_page

\* the last of three pages of two records was returned
C15_Witness ==
  /\ result /= <<>>
  /\ result[1].status = "OK"
  /\ result[1].pagination.current_page = 3
  /\ result[1].pagination.total_pages = 3
  /\ result[1].pagination.total_results = 5
  /\ Len(result[1].results) = 1
  /\ ~result[1].pagination.has_next_page
  /\ result[1].pagination.has_prev_page

\* the single geocode attempt of the anchor handler failed: a status other
\* than OK, no candidate, or a rejected request
GeocodeFailed == geoReply /= <<>> /\ geoReply /= <<"OK">>

C17_NoBlankSearch ==
  /\ \A i \in 1..Len(sent) :
       sent[i].api = "textsearch" => Trim(sent[i].query) /= <<>>
  /\ (pc = "done" /\ event.httpMethod = "POST" /\ KeysConfigured
      /\ event.bodyParses /\ QueryBlank(event.query)) =>
       /\ sent = <<>>
       /\ response[1].statusCode = 400

\* what call c's searchPlaces returns or throws when it runs alone and the
\* upstream gives it the pages ps
AloneOutcome(ps, anchor, n, pg) ==
  LET got == Slice(FlattenPages(ps), 0, DefaultMaxResults)
      all == Aggregated("anchor", got, anchor)
  IN IF Len(got) = 0
     THEN [thrown |-> <<>>,
           result |-> <<SearchResult("ZERO_RESULTS", <<>>,
                                     calculatePagination(0, n, pg))>>]
     ELSE IF PageMissing(all, n, pg)
     THEN [thrown |-> <<Err("PageNotFound", pg, CeilDiv(Len(all), n))>>,
           result |-> <<>>]
     ELSE [thrown |-> <<>>,
           result |-> <<SearchResult("OK", PageSlice(all, n, pg),
                                     calculatePagination(Len(all), n, pg))>>]

\* call c is where a call running alone would be after the answers it got
AsAlone(c) ==
  LET f == frames[c]
      fetching == IF f.pc = "done" THEN f.anchorCoords /= <<>>
                  ELSE f.pc \in {"request", "delay", "gapReturned"}
  IN fetching =>
       /\ f.requestsMade =
            Len(f.pages) + (IF f.failure = "status" THEN 1 ELSE 0)
       /\ f.nextPageToken = IF f.pages = <<>> THEN NoToken
                            ELSE f.pages[Len(f.pages)].token
       /\ f.pc \in {"request", "delay"} =>
            arrays[c] = FlattenPages(f.pages)
       /\ f.pc \in {"gapReturned", "done"} =>
            f.gapResult = Slice(FlattenPages(f.pages), 0, DefaultMaxResults)
       /\ f.pc = "done" =>
            /\ f.thrown = AloneOutcome(f.pages, f.anchorCoords, f.topN,
                                       f.page).thrown
            /\ f.result = AloneOutcome(f.pages, f.anchorCoords, f.topN,
                                       f.page).result

\* a step changes the locals and the array of one call only
OneCallSteps ==
  \E c \in Calls : \A d \in Calls \ {c} :
    frames'[d] = frames[d] /\ arrays'[d] = arrays[d]

\* C12: two searchPlaces calls interleaved at their awaits do not interfere:
\* each call's request count, token, accumulator and outcome are those of a
\* call running alone that got the same answers, and no step of one call
\* changes what the other call holds.
C12_Independent == [](\A c \in Calls : AsAlone(c)) /\ [][OneCallSteps]_vars

\* both calls are in the middle of fetching, with different records so far
C12_Witness ==
  /\ frames[1].pc = "delay"
  /\ frames[1].requestsMade = 2
  /\ frames[2].pc = "request"
  /\ frames[2].requestsMade = 1
  /\ Len(arrays[1]) = 2
  /\ Len(arrays[2]) = 1
  /\ arrays[1][1] /= arrays[2][1]

====
